---- MODULE Spec2Model ----
(***************************************************************************)
(* withlockfile <lockfile> <command> [args..]                              *)
(*                                                                         *)
(* A model of src/withlockfile.cpp: two invocations of main() that share   *)
(* one lock file, the operating system objects they use (the byte range    *)
(* lock, the job object, the child process), the child itself, and         *)
(* NumForeign further processes that take and drop the same lock (further  *)
(* invocations, seen only through the lock). Every Win32 call of main() is *)
(* one action; a call may fail whenever the operating system is allowed to *)
(* fail it.                                                                *)
(***************************************************************************)
EXTENDS Integers, Sequences, FiniteSets, TLC

\* ------------------------------------------------------------- bounds
NumForeign == 1        \* other processes that lock the same byte range
MaxExitCode == 1       \* the child exits with a code in 0..MaxExitCode
MaxNameLen == 5        \* the command names given to enforceExeExtension have
                       \* at most MaxNameLen characters

\* ---------------------------------------------------- program constants
MaxAttempts == 300             \* for ( int i = 0; i < 300; ++i )
MinArgc == 3                   \* if ( argc < 3 )
UsageExitCode == 1             \* return 1 after the usage message
ERROR_ACCESS_DENIED == 5
ERROR_LOCK_VIOLATION == 33
ExtLen == 4                    \* if ( len < 4 || ... exe.substr( len - 4 ) ...

\* The two invocations whose run is modelled statement by statement, and the
\* other lockers.
Procs == {1, 2}
Foreign == {Cardinality(Procs) + k : k \in 1..NumForeign}
ExitCodes == 0..MaxExitCode
NoProc == 0
NoCode == -1
\* what GetLastError() can report after a failed call: access denied, a
\* general failure (ERROR_GEN_FAILURE), and the lock violation
OsErrorCodes == {ERROR_ACCESS_DENIED, 31, ERROR_LOCK_VIOLATION}
NoError == [what |-> "none", errorCode |-> NoCode]

VARIABLES
    pc,            \* pc[p]: the statement invocation p executes next
    i,             \* the retry loop's counter
    f,             \* the lock file handle: "none", "open", "closed" (CloseHandle)
    lockAcquired,  \* the local flag of the retry loop
    unlocked,      \* UnlockFileEx has succeeded
    lockOwner,     \* the process (invocation or other locker) owning the
                   \* exclusive lock on byte 0, or NoProc
    fileExists,    \* the lock file exists on disk
    child,         \* "none", "suspended", "running", "exited", "killed"
    childCode,     \* the exit code the child exited with
    grand,         \* a process spawned by the child: "none", "running", "exited", "killed"
    job,           \* the job object handle: "none", "open", "closed"
    jobKill,       \* JOB_OBJECT_LIMIT_KILL_ON_JOB_CLOSE is set on the job
    attach,        \* AssignProcessToJobObject: "none", "assigned", "denied"
    exitCode,      \* the DWORD read by GetExitCodeProcess
    failure,       \* the failure as produced by the failing call
    err,           \* the Win32Error caught by main's handler
    exitPath,      \* how the invocation ended: "usage", "return", "catch", "killed"
    ret,           \* the process exit status of the invocation
    argc,          \* argc[p]: the argument count invocation p was started with
    argv2,         \* a command name, as given in argv[2]
    executable,    \* enforceExeExtension( argv2 ), <<>> before the call
    again,         \* enforceExeExtension( executable ), <<>> before the call
    withExt,       \* enforceExeExtension( argv2 + ".exe" ), <<>> before the call
    waitOrder      \* history: the invocations that were refused the lock and
                   \* have not gone past the retry loop, in the order of their
                   \* first refusal

vars == <<pc, i, f, lockAcquired, unlocked, lockOwner, fileExists, child,
          childCode, grand, job, jobKill, attach, exitCode, failure, err,
          exitPath, ret, argc, argv2, executable, again, withExt,
          waitOrder>>

\* What main() and the operating system change while an invocation runs.
mainVars ==
    <<pc, i, f, lockAcquired, unlocked, lockOwner, fileExists, child,
      childCode, grand, job, jobKill, attach, exitCode, failure, err,
      exitPath, ret>>

\* What an invocation is started with; main() never writes it.
cmdVars == <<argc, argv2>>

\* The results of enforceExeExtension.
nameVars == <<executable, again, withExt>>

osVars == <<lockOwner, child, grand>>

NotStarted ==
    /\ pc = [p \in Procs |-> "idle"]
    /\ i = [p \in Procs |-> 0]
    /\ f = [p \in Procs |-> "none"]
    /\ lockAcquired = [p \in Procs |-> FALSE]
    /\ unlocked = [p \in Procs |-> FALSE]
    /\ lockOwner = NoProc
    /\ child = [p \in Procs |-> "none"]
    /\ childCode = [p \in Procs |-> NoCode]
    /\ grand = [p \in Procs |-> "none"]
    /\ job = [p \in Procs |-> "none"]
    /\ jobKill = [p \in Procs |-> FALSE]
    /\ attach = [p \in Procs |-> "none"]
    /\ exitCode = [p \in Procs |-> NoCode]
    /\ failure = [p \in Procs |-> NoError]
    /\ err = [p \in Procs |-> NoError]
    /\ exitPath = [p \in Procs |-> "none"]
    /\ ret = [p \in Procs |-> NoCode]
    /\ executable = <<>>
    /\ again = <<>>
    /\ withExt = <<>>
    /\ waitOrder = <<>>

\* Two invocations about to start, with or without the lock file on disk and
\* with any argument count; the command's name is left open.
Init ==
    /\ NotStarted
    /\ fileExists \in BOOLEAN
    /\ argc \in [Procs -> 1..MinArgc]
    /\ argv2 = <<>>

\* ------------------------------------------------ operating system

\* (variant) a lock that serves its waiters in the order of their arrival
LockBusyFifo(p) ==
    \/ lockOwner \notin {NoProc, p}
    \/ waitOrder # <<>> /\ Head(waitOrder) # p

\* (variant) the lock taken without LOCKFILE_EXCLUSIVE_LOCK: never refused
LockBusyShared(p) == FALSE

\* LockFileEx with LOCKFILE_EXCLUSIVE_LOCK | LOCKFILE_FAIL_IMMEDIATELY finds
\* the byte range locked by another process.
LockBusy(p) == lockOwner \notin {NoProc, p}

\* (variant) a lock that outlives UnlockFileEx and the closing of the handle
ReleasedLockKept(p) == lockOwner

\* The owner of the byte range after p's lock on it is gone (UnlockFileEx, or
\* the handle closed by the system when the process ends).
ReleasedLock(p) == IF lockOwner = p THEN NoProc ELSE lockOwner

\* (variant) a job without JOB_OBJECT_LIMIT_KILL_ON_JOB_CLOSE
KilledByJobNoLimit(p, s) == s

\* Closing the last handle of a job with KILL_ON_JOB_CLOSE terminates the
\* processes assigned to it.
KilledByJob(p, s) ==
    IF job[p] = "open" /\ jobKill[p] /\ attach[p] = "assigned"
       /\ s \in {"suspended", "running"}
    THEN "killed" ELSE s

\* The process of invocation p ends (return from main, or termination): the
\* system closes its handles, which releases its lock and closes its job.
ProcessEnds(p, path, status) ==
    /\ pc' = [pc EXCEPT ![p] = "done"]
    /\ exitPath' = [exitPath EXCEPT ![p] = path]
    /\ ret' = [ret EXCEPT ![p] = status]
    /\ lockOwner' = ReleasedLock(p)
    /\ child' = [child EXCEPT ![p] = KilledByJob(p, child[p])]
    /\ grand' = [grand EXCEPT ![p] = KilledByJob(p, grand[p])]

\* ------------------------------------------------------ error reporter

\* catch ( const Win32Error &e ): report, then return e.errorCode.
CatchStatus(e) == e.errorCode

\* throw Win32Error( what, code ) for a call that failed with `cause`, caught
\* by main's handler, which ends the process.
Throw(p, what, cause, code) ==
    /\ failure' = [failure EXCEPT ![p] = [what |-> what, errorCode |-> cause]]
    /\ err' = [err EXCEPT ![p] = [what |-> what, errorCode |-> code]]
    /\ ProcessEnds(p, "catch", CatchStatus([what |-> what, errorCode |-> code]))

\* A call fails with some error code and main throws GetLastError().
Fails(p, what, codes) ==
    \E c \in codes : Throw(p, what, c, c)

\* The codes a call other than LockFileEx fails with, and the codes with which
\* LockFileEx fails when the failure is not that the range is locked.
FailureCodes == OsErrorCodes \ {ERROR_LOCK_VIOLATION}

\* ------------------------------------------------- the command's name

\* Strings are sequences of characters; the characters of the names tried.
Chars == {".", "e", "x", "E", "X", "a"}
Names == UNION {[1..n -> Chars] : n \in 0..MaxNameLen}
DotExe == <<".", "e", "x", "e">>

\* tolower() on the characters of Chars
tolower(c) == CASE c = "E" -> "e" [] c = "X" -> "x" [] OTHER -> c

\* (variant) the comparison made with strcmp: the letter case counts
strcmp(a, b) == IF a = b THEN 0 ELSE 1

\* _stricmp( a, b ): 0 when the strings are equal after lower-casing
stricmp(a, b) ==
    IF [k \in DOMAIN a |-> tolower(a[k])] = [k \in DOMAIN b |-> tolower(b[k])]
    THEN 0 ELSE 1

\* std::string::substr( pos ): the characters from position pos (0-based) on
substr(str, pos) == SubSeq(str, pos + 1, Len(str))

\* std::string enforceExeExtension( const std::string &exe )
enforceExeExtension(exe) ==
    IF Len(exe) < ExtLen \/ stricmp(substr(exe, Len(exe) - ExtLen), DotExe) # 0
    THEN exe \o DotExe
    ELSE exe

\* executable = enforceExeExtension( argv[2] )
Enforce ==
    /\ executable = <<>>
    /\ executable' = enforceExeExtension(argv2)
    /\ UNCHANGED <<again, withExt, mainVars, cmdVars, waitOrder>>

\* the function applied to its own result
EnforceAgain ==
    /\ executable # <<>>
    /\ again = <<>>
    /\ again' = enforceExeExtension(executable)
    /\ UNCHANGED <<executable, withExt, mainVars, cmdVars, waitOrder>>

\* the function applied to the name typed with the extension
EnforceWithExt ==
    /\ withExt = <<>>
    /\ withExt' = enforceExeExtension(argv2 \o DotExe)
    /\ UNCHANGED <<executable, again, mainVars, cmdVars, waitOrder>>

\* ------------------------------------------------------------- main()

\* (variant) main() resuming the child right after configuring the job,
\* without AssignProcessToJobObject
FollowingSkipsAssign(stmt) ==
    CASE stmt = "argc" -> "open"
      [] stmt = "open" -> "lock"
      [] stmt = "lock" -> "check"
      [] stmt = "check" -> "resolve"
      [] stmt = "resolve" -> "create"
      [] stmt = "create" -> "job"
      [] stmt = "job" -> "setinfo"
      [] stmt = "setinfo" -> "resume"
      [] stmt = "assign" -> "resume"
      [] stmt = "resume" -> "wait"
      [] stmt = "wait" -> "getexit"
      [] stmt = "getexit" -> "unlock"
      [] stmt = "unlock" -> "close"

\* The statement main() executes after `stmt` has succeeded.
Following(stmt) ==
    CASE stmt = "argc" -> "open"
      [] stmt = "open" -> "lock"
      [] stmt = "lock" -> "check"
      [] stmt = "check" -> "resolve"
      [] stmt = "resolve" -> "create"
      [] stmt = "create" -> "job"
      [] stmt = "job" -> "setinfo"
      [] stmt = "setinfo" -> "assign"
      [] stmt = "assign" -> "resume"
      [] stmt = "resume" -> "wait"
      [] stmt = "wait" -> "getexit"
      [] stmt = "getexit" -> "unlock"
      [] stmt = "unlock" -> "close"

\* (variant) the test made with argc < 2: a lock file alone is accepted
TooFewArgumentsLockFileOnly(n) == n < MinArgc - 1

\* argc < 3: the lock file or the command is missing
TooFewArguments(n) == n < MinArgc

\* if ( argc < 3 ) { usage; return 1; }
Start(p) ==
    /\ pc[p] = "idle"
    /\ IF TooFewArguments(argc[p])
       THEN /\ ProcessEnds(p, "usage", UsageExitCode)
            /\ UNCHANGED <<failure, err>>
       ELSE /\ pc' = [pc EXCEPT ![p] = Following("argc")]
            /\ UNCHANGED <<failure, err, exitPath, ret, osVars>>
    /\ UNCHANGED <<i, f, lockAcquired, unlocked, fileExists, childCode, job,
                   jobKill, attach, exitCode>>
    /\ UNCHANGED <<cmdVars, nameVars, waitOrder>>

\* HANDLE f = ::CreateFileA( argv[1], GENERIC_READ, FILE_SHARE_READ, NULL,
\*                           OPEN_ALWAYS, ... ), then the loop's int i = 0
CreateFileA(p) ==
    /\ pc[p] = "open"
    /\ \/ /\ f' = [f EXCEPT ![p] = "open"]
          /\ fileExists' = TRUE
          /\ i' = [i EXCEPT ![p] = 0]
          /\ pc' = [pc EXCEPT ![p] = Following("open")]
          /\ UNCHANGED <<failure, err, exitPath, ret, osVars>>
       \/ /\ Fails(p, "CreateFileA", FailureCodes)
          /\ UNCHANGED <<f, fileExists, i>>
    /\ UNCHANGED <<lockAcquired, unlocked, childCode, job, jobKill, attach,
                   exitCode>>
    /\ UNCHANGED <<cmdVars, nameVars, waitOrder>>

\* (variant) continue without ++i: the counter stays where it is
NextAttemptStuck(n) == n

\* The value of i after ++i, and where the loop goes: the next attempt while
\* i < 300, the statement after the loop otherwise.
NextAttempt(n) == n + 1
\* (variant) the loop test made with <= : one attempt too many
AfterSleepOffByOne(n) == IF NextAttempt(n) <= MaxAttempts THEN "lock" ELSE "check"
AfterSleep(n) == IF NextAttempt(n) < MaxAttempts THEN "lock" ELSE "check"

\* The history of waiting: p is entered at its first refusal, and removed
\* when it goes past the loop (line 103) or ends.
Refused(p) ==
    IF \E k \in DOMAIN waitOrder : waitOrder[k] = p
    THEN waitOrder
    ELSE Append(waitOrder, p)
PastLoop(p) == SelectSeq(waitOrder, LAMBDA q : q # p)

\* What GetLastError() can be after a failed LockFileEx of p: the lock
\* violation while another process holds the range, any other failure always.
LockFailures(p) ==
    FailureCodes \cup (IF LockBusy(p) THEN {ERROR_LOCK_VIOLATION} ELSE {})

\* (variant) every failure of LockFileEx taken for contention and retried
IsContentionAny(lastError) == TRUE

\* if ( lastError == ERROR_LOCK_VIOLATION )
IsContention(lastError) == lastError = ERROR_LOCK_VIOLATION

\* One iteration of the retry loop: LockFileEx( f, LOCKFILE_EXCLUSIVE_LOCK |
\* LOCKFILE_FAIL_IMMEDIATELY, 0, 1, 0, &ol ). On success lockAcquired = true
\* and break (i goes out of scope); on ERROR_LOCK_VIOLATION Sleep( 1000 ),
\* ++i and the loop test; on any other error throw.
LockFileEx(p) ==
    /\ pc[p] = "lock"
    /\ \/ /\ ~LockBusy(p)
          /\ lockOwner' = p
          /\ lockAcquired' = [lockAcquired EXCEPT ![p] = TRUE]
          /\ i' = [i EXCEPT ![p] = 0]
          /\ pc' = [pc EXCEPT ![p] = Following("lock")]
          /\ UNCHANGED <<failure, err, exitPath, ret, child, grand, waitOrder>>
       \/ \E lastError \in LockFailures(p) :
             IF IsContention(lastError)
             THEN /\ i' = [i EXCEPT ![p] = NextAttempt(i[p])]
                  /\ pc' = [pc EXCEPT ![p] = AfterSleep(i[p])]
                  /\ waitOrder' = Refused(p)
                  /\ UNCHANGED <<lockAcquired, failure, err, exitPath, ret,
                                 osVars>>
             ELSE /\ Throw(p, "LockFileEx", lastError, lastError)
                  /\ waitOrder' = PastLoop(p)
                  /\ UNCHANGED <<lockAcquired, i>>
    /\ UNCHANGED <<f, unlocked, fileExists, childCode, job, jobKill, attach,
                   exitCode>>
    /\ UNCHANGED <<cmdVars, nameVars>>

\* if ( !lockAcquired ) throw Win32Error( "LockFileEx", ERROR_LOCK_VIOLATION )
CheckAcquired(p) ==
    /\ pc[p] = "check"
    /\ IF lockAcquired[p]
       THEN /\ pc' = [pc EXCEPT ![p] = Following("check")]
            /\ UNCHANGED <<failure, err, exitPath, ret, osVars>>
       ELSE Throw(p, "LockFileEx", ERROR_LOCK_VIOLATION, ERROR_LOCK_VIOLATION)
    /\ waitOrder' = PastLoop(p)
    /\ UNCHANGED <<i, f, lockAcquired, unlocked, fileExists, childCode, job,
                   jobKill, attach, exitCode>>
    /\ UNCHANGED <<cmdVars, nameVars>>

\* enforceExeExtension( argv[2] ), PathSearchAndQualifyA, and the command line
PathSearchAndQualifyA(p) ==
    /\ pc[p] = "resolve"
    /\ \/ /\ pc' = [pc EXCEPT ![p] = Following("resolve")]
          /\ UNCHANGED <<failure, err, exitPath, ret, osVars>>
       \/ Fails(p, "PathSearchAndQualifyA", FailureCodes)
    /\ UNCHANGED <<i, f, lockAcquired, unlocked, fileExists, childCode, job,
                   jobKill, attach, exitCode>>
    /\ UNCHANGED <<cmdVars, nameVars, waitOrder>>

\* CreateProcessA( ..., CREATE_SUSPENDED, ... )
CreateProcessA(p) ==
    /\ pc[p] = "create"
    /\ \/ /\ child' = [child EXCEPT ![p] = "suspended"]
          /\ pc' = [pc EXCEPT ![p] = Following("create")]
          /\ UNCHANGED <<failure, err, exitPath, ret, lockOwner, grand>>
       \/ Fails(p, "CreateProcessA", FailureCodes)
    /\ UNCHANGED <<i, f, lockAcquired, unlocked, fileExists, childCode, job,
                   jobKill, attach, exitCode>>
    /\ UNCHANGED <<cmdVars, nameVars, waitOrder>>

\* HANDLE jobObject = ::CreateJobObject( NULL, NULL )
CreateJobObject(p) ==
    /\ pc[p] = "job"
    /\ \/ /\ job' = [job EXCEPT ![p] = "open"]
          /\ pc' = [pc EXCEPT ![p] = Following("job")]
          /\ UNCHANGED <<failure, err, exitPath, ret, osVars>>
       \/ /\ Fails(p, "CreateJobObject", FailureCodes)
          /\ UNCHANGED job
    /\ UNCHANGED <<i, f, lockAcquired, unlocked, fileExists, childCode,
                   jobKill, attach, exitCode>>
    /\ UNCHANGED <<cmdVars, nameVars, waitOrder>>

\* What GetLastError() returns after ::CloseHandle( jobObject ) when the last
\* error was c before it: CloseHandle may leave the value, clear it to
\* ERROR_SUCCESS (0) on success, or set its own code on failure.
LastErrorAfterClose(c) == {c, 0} \cup FailureCodes

\* SetInformationJobObject with JOB_OBJECT_LIMIT_KILL_ON_JOB_CLOSE; on failure
\* ::CloseHandle( jobObject ) and then throw Win32Error( ..., ::GetLastError() )
SetInformationJobObject(p) ==
    /\ pc[p] = "setinfo"
    /\ \/ /\ jobKill' = [jobKill EXCEPT ![p] = TRUE]
          /\ pc' = [pc EXCEPT ![p] = Following("setinfo")]
          /\ UNCHANGED <<job, failure, err, exitPath, ret, osVars>>
       \/ /\ job' = [job EXCEPT ![p] = "closed"]
          /\ \E c \in FailureCodes : \E e \in LastErrorAfterClose(c) :
                Throw(p, "SetInformationJobObject", c, e)
          /\ UNCHANGED jobKill
    /\ UNCHANGED <<i, f, lockAcquired, unlocked, fileExists, childCode,
                   attach, exitCode>>
    /\ UNCHANGED <<cmdVars, nameVars, waitOrder>>

\* (variant) AssignProcessToJobObject checked like every other call
AssignFatalAll == FailureCodes

\* The failures of AssignProcessToJobObject that main() throws.
AssignFatal == FailureCodes \ {ERROR_ACCESS_DENIED}

\* if ( !::AssignProcessToJobObject( jobObject, pi.hProcess ) &&
\*      ::GetLastError() != ERROR_ACCESS_DENIED ) throw
AssignProcessToJobObject(p) ==
    /\ pc[p] = "assign"
    /\ \/ /\ attach' = [attach EXCEPT ![p] = "assigned"]
          /\ pc' = [pc EXCEPT ![p] = Following("assign")]
          /\ UNCHANGED <<failure, err, exitPath, ret, osVars>>
       \/ /\ (FailureCodes \ AssignFatal) # {}
          /\ attach' = [attach EXCEPT ![p] = "denied"]
          /\ pc' = [pc EXCEPT ![p] = Following("assign")]
          /\ UNCHANGED <<failure, err, exitPath, ret, osVars>>
       \/ /\ Fails(p, "AssignProcessToJobObject", AssignFatal)
          /\ UNCHANGED attach
    /\ UNCHANGED <<i, f, lockAcquired, unlocked, fileExists, childCode, job,
                   jobKill, exitCode>>
    /\ UNCHANGED <<cmdVars, nameVars, waitOrder>>

\* ::ResumeThread( pi.hThread )
ResumeThread(p) ==
    /\ pc[p] = "resume"
    /\ \/ /\ child' = [child EXCEPT ![p] = "running"]
          /\ pc' = [pc EXCEPT ![p] = Following("resume")]
          /\ UNCHANGED <<failure, err, exitPath, ret, lockOwner, grand>>
       \/ Fails(p, "ResumeThread", FailureCodes)
    /\ UNCHANGED <<i, f, lockAcquired, unlocked, fileExists, childCode, job,
                   jobKill, attach, exitCode>>
    /\ UNCHANGED <<cmdVars, nameVars, waitOrder>>

\* (variant) a wait with a finite timeout: it also returns, with WAIT_TIMEOUT,
\* while the child runs
WaitReturnsOrTimesOut(p) == TRUE

\* A wait with INFINITE returns without failure only when the process handle
\* is signalled: the child has ended.
WaitReturns(p) == child[p] = "exited"

\* ::WaitForSingleObject( pi.hProcess, INFINITE ) returns once the child has
\* ended, or fails with WAIT_FAILED.
WaitForSingleObject(p) ==
    /\ pc[p] = "wait"
    /\ \/ /\ WaitReturns(p)
          /\ pc' = [pc EXCEPT ![p] = Following("wait")]
          /\ UNCHANGED <<failure, err, exitPath, ret, osVars>>
       \/ Fails(p, "WaitForSingleObject", FailureCodes)
    /\ UNCHANGED <<i, f, lockAcquired, unlocked, fileExists, childCode, job,
                   jobKill, attach, exitCode>>
    /\ UNCHANGED <<cmdVars, nameVars, waitOrder>>

\* ::GetExitCodeProcess( pi.hProcess, &exitCode )
GetExitCodeProcess(p) ==
    /\ pc[p] = "getexit"
    /\ \/ /\ exitCode' = [exitCode EXCEPT ![p] = childCode[p]]
          /\ pc' = [pc EXCEPT ![p] = Following("getexit")]
          /\ UNCHANGED <<failure, err, exitPath, ret, osVars>>
       \/ /\ Fails(p, "GetExitCodeProcess", FailureCodes)
          /\ UNCHANGED exitCode
    /\ UNCHANGED <<i, f, lockAcquired, unlocked, fileExists, childCode, job,
                   jobKill, attach>>
    /\ UNCHANGED <<cmdVars, nameVars, waitOrder>>

\* ::UnlockFileEx( f, 0, 1, 0, &ol )
UnlockFileEx(p) ==
    /\ pc[p] = "unlock"
    /\ \/ /\ lockOwner' = ReleasedLock(p)
          /\ unlocked' = [unlocked EXCEPT ![p] = TRUE]
          /\ pc' = [pc EXCEPT ![p] = Following("unlock")]
          /\ UNCHANGED <<failure, err, exitPath, ret, child, grand>>
       \/ /\ Fails(p, "UnlockFileEx", FailureCodes)
          /\ UNCHANGED unlocked
    /\ UNCHANGED <<i, f, lockAcquired, fileExists, childCode, job, jobKill,
                   attach, exitCode>>
    /\ UNCHANGED <<cmdVars, nameVars, waitOrder>>

\* (variant) return 0 instead of the child's exit code
ReturnStatusZero(p) == 0

\* return exitCode;
ReturnStatus(p) == exitCode[p]

\* ::CloseHandle( f ), then return exitCode
CloseHandle(p) ==
    /\ pc[p] = "close"
    /\ \/ /\ f' = [f EXCEPT ![p] = "closed"]
          /\ ProcessEnds(p, "return", ReturnStatus(p))
          /\ UNCHANGED <<failure, err>>
       \/ /\ Fails(p, "CloseHandle", FailureCodes)
          /\ UNCHANGED f
    /\ UNCHANGED <<i, lockAcquired, unlocked, fileExists, childCode, job,
                   jobKill, attach, exitCode>>
    /\ UNCHANGED <<cmdVars, nameVars, waitOrder>>

\* --------------------------------------------------------- the child

\* The resumed child runs the command and exits with some code.
ChildExits(p) ==
    /\ child[p] = "running"
    /\ \E n \in ExitCodes :
          /\ child' = [child EXCEPT ![p] = "exited"]
          /\ childCode' = [childCode EXCEPT ![p] = n]
    /\ UNCHANGED <<pc, i, f, lockAcquired, unlocked, lockOwner, fileExists,
                   grand, job, jobKill, attach, exitCode, failure, err,
                   exitPath, ret>>
    /\ UNCHANGED <<cmdVars, nameVars, waitOrder>>

\* The running child starts a process of its own. The job sets no breakaway
\* limit, so the new process belongs to the job exactly when the child does.
ChildSpawns(p) ==
    /\ child[p] = "running"
    /\ grand[p] = "none"
    /\ grand' = [grand EXCEPT ![p] = "running"]
    /\ UNCHANGED <<pc, i, f, lockAcquired, unlocked, lockOwner, fileExists,
                   child, childCode, job, jobKill, attach, exitCode, failure,
                   err, exitPath, ret>>
    /\ UNCHANGED <<cmdVars, nameVars, waitOrder>>

GrandExits(p) ==
    /\ grand[p] = "running"
    /\ grand' = [grand EXCEPT ![p] = "exited"]
    /\ UNCHANGED <<pc, i, f, lockAcquired, unlocked, lockOwner, fileExists,
                   child, childCode, job, jobKill, attach, exitCode, failure,
                   err, exitPath, ret>>
    /\ UNCHANGED <<cmdVars, nameVars, waitOrder>>

\* ------------------------------------------------------- other lockers

\* Another process takes the exclusive lock on the byte range when it is free
\* (LockFileEx as in main()), and drops it at some later time (UnlockFileEx,
\* or the end of that process).
ForeignLocks(h) ==
    /\ lockOwner = NoProc
    /\ lockOwner' = h
    /\ UNCHANGED <<pc, i, f, lockAcquired, unlocked, fileExists, child,
                   childCode, grand, job, jobKill, attach, exitCode, failure,
                   err, exitPath, ret>>
    /\ UNCHANGED <<cmdVars, nameVars, waitOrder>>

ForeignUnlocks(h) ==
    /\ lockOwner = h
    /\ lockOwner' = NoProc
    /\ UNCHANGED <<pc, i, f, lockAcquired, unlocked, fileExists, child,
                   childCode, grand, job, jobKill, attach, exitCode, failure,
                   err, exitPath, ret>>
    /\ UNCHANGED <<cmdVars, nameVars, waitOrder>>

\* ------------------------------------------------- forced termination

\* The supervisor is terminated from outside (TerminateProcess) at any point
\* of main().
Kill(p) ==
    /\ pc[p] \notin {"idle", "done"}
    /\ ProcessEnds(p, "killed", NoCode)
    /\ waitOrder' = PastLoop(p)
    /\ UNCHANGED <<i, f, lockAcquired, unlocked, fileExists, childCode, job,
                   jobKill, attach, exitCode, failure, err>>
    /\ UNCHANGED <<cmdVars, nameVars>>

\* ------------------------------------------------------ specifications

Step(p) ==
    \/ Start(p)
    \/ CreateFileA(p)
    \/ LockFileEx(p)
    \/ CheckAcquired(p)
    \/ PathSearchAndQualifyA(p)
    \/ CreateProcessA(p)
    \/ CreateJobObject(p)
    \/ SetInformationJobObject(p)
    \/ AssignProcessToJobObject(p)
    \/ ResumeThread(p)
    \/ WaitForSingleObject(p)
    \/ GetExitCodeProcess(p)
    \/ UnlockFileEx(p)
    \/ CloseHandle(p)

\* The invocations, their children and the other lockers; nothing terminates
\* a supervisor.
Next ==
    \/ \E p \in Procs : Step(p) \/ ChildExits(p)
    \/ \E h \in Foreign : ForeignLocks(h) \/ ForeignUnlocks(h)

Spec == Init /\ [][Next]_vars

\* The invocations alone, with supervisors that can be terminated at any point
\* and children that start processes of their own.
NextKill ==
    \E p \in Procs :
        Step(p) \/ ChildExits(p) \/ ChildSpawns(p) \/ GrandExits(p) \/ Kill(p)

SpecKill == Init /\ [][NextKill]_vars

\* A step of main() in which no Win32 call fails: the call returns, Sleep
\* returns, or the exhausted loop throws.
Advance(p) == Step(p) /\ failure'[p].errorCode \notin FailureCodes

\* The invocations, their children and the other lockers when no Win32 call
\* fails. Each invocation is a process the system keeps scheduling, so a step
\* that stays possible is taken; a resumed child exits. The other lockers owe
\* nothing: they may keep the lock for ever.
NextLive ==
    \/ \E p \in Procs : Advance(p) \/ ChildExits(p)
    \/ \E h \in Foreign : ForeignLocks(h) \/ ForeignUnlocks(h)

SpecLive ==
    /\ Init
    /\ [][NextLive]_vars
    /\ \A p \in Procs : WF_vars(Advance(p)) /\ WF_vars(ChildExits(p))

\* enforceExeExtension alone, on every name of at most MaxNameLen characters.
InitExe ==
    /\ NotStarted
    /\ fileExists = FALSE
    /\ argc = [p \in Procs |-> MinArgc]
    /\ argv2 \in Names

NextExe ==
    \/ Enforce
    \/ EnforceAgain
    \/ EnforceWithExt

SpecExe == InitExe /\ [][NextExe]_vars

\* ------------------------------------------------------------ properties

Others(p) == Procs \ {p}
TimedOut(p) ==
    /\ pc[p] = "done"
    /\ err[p] = [what |-> "LockFileEx", errorCode |-> ERROR_LOCK_VIOLATION]
\* The steps main() takes between acquiring the lock and reading the child's
\* exit code.
GuardedSteps ==
    {"PathSearchAndQualifyA", "CreateProcessA", "CreateJobObject",
     "SetInformationJobObject", "AssignProcessToJobObject", "ResumeThread",
     "WaitForSingleObject", "GetExitCodeProcess"}

\* C1: the children of two invocations on the same lock file are never
\* running at the same time.
C1_ChildrenNeverOverlap ==
    \A p \in Procs : \A q \in Others(p) :
        ~(child[p] = "running" /\ child[q] = "running")

\* C2: the lock is acquired before the child is created and released only
\* after its exit code was read: while an invocation's child exists and has
\* not ended, that invocation holds the lock.
C2_LockHeldWhileChildLives ==
    \A p \in Procs :
        /\ child[p] # "none" => lockAcquired[p]
        /\ unlocked[p] => exitCode[p] # NoCode
        /\ child[p] \in {"suspended", "running"} => lockOwner = p

\* C3: an invocation that fails after it acquired the lock has unlocked the
\* byte range and closed the lock file handle by the time it exits.
C3_CleanupOnErrorPaths ==
    \A p \in Procs :
        (pc[p] = "done" /\ exitPath[p] = "catch" /\ lockAcquired[p]
            /\ failure[p].what \in GuardedSteps)
        => (unlocked[p] /\ f[p] = "closed")

\* What holds of the retry loop's counter in every state.
C4_TimeoutState ==
    \A p \in Procs :
        /\ i[p] <= MaxAttempts
        /\ pc[p] = "lock" => i[p] < MaxAttempts
        /\ (pc[p] = "check" /\ ~lockAcquired[p]) => i[p] = MaxAttempts
        /\ TimedOut(p) =>
              /\ i[p] = MaxAttempts
              /\ ~lockAcquired[p]
              /\ child[p] = "none"
              /\ failure[p] = err[p]
              /\ ret[p] = ERROR_LOCK_VIOLATION
        /\ (pc[p] = "done" /\ err[p].what = "LockFileEx" /\ ~TimedOut(p)) =>
              /\ err[p].errorCode # ERROR_LOCK_VIOLATION
              /\ i[p] < MaxAttempts
              /\ child[p] = "none"
\* What every step of an invocation inside the retry loop does.
C4_LoopStep ==
    \A p \in Procs :
        (pc[p] = "lock" /\ <<pc[p], i[p]>> # <<pc'[p], i'[p]>>) =>
            \/ pc'[p] \in {"check", "done"}
            \/ pc'[p] = "lock" /\ i'[p] = i[p] + 1

\* C4: a waiter leaves the retry loop after exactly MaxAttempts (300) refused
\* attempts, with the error (LockFileEx, ERROR_LOCK_VIOLATION) and without a
\* child; no lock failure that is fatal at once carries that code or comes
\* after the last attempt; and every step of the loop either leaves it or
\* counts one attempt more, so the loop cannot run on.
C4_BoundedWait == [](C4_TimeoutState) /\ [][C4_LoopStep]_vars
C4_Witness ==
    \E p \in Procs : \E q \in Others(p) :
        /\ TimedOut(p) /\ i[p] = MaxAttempts
        /\ lockOwner = q /\ child[q] = "running"

\* C5 (as stated): whenever the child is running it is a member of the job
\* object of its invocation.
C5_RunningInJob ==
    \A p \in Procs :
        child[p] = "running" => (attach[p] = "assigned" /\ job[p] = "open")

\* C5 (amended): the child is resumed only after AssignProcessToJobObject was
\* called on a job with KILL_ON_JOB_CLOSE, and that call either assigned the
\* child or was refused with ERROR_ACCESS_DENIED; a child that was never
\* resumed has no exit code.
C5_RunningAfterAttach ==
    \A p \in Procs :
        /\ child[p] \in {"running", "exited"} =>
              /\ attach[p] \in {"assigned", "denied"}
              /\ job[p] = "open"
              /\ jobKill[p]
        /\ childCode[p] # NoCode => child[p] = "exited"
        /\ attach[p] # "none" => child[p] # "none"
C5_Witness ==
    \E p \in Procs :
        child[p] = "running" /\ attach[p] = "assigned" /\ pc[p] = "wait"

\* C6 (as stated): after the supervisor was terminated, its child is not
\* running, nor is a process the child started.
C6_KillLeavesNoProcess ==
    \A p \in Procs :
        exitPath[p] = "killed" =>
            /\ child[p] # "running"
            /\ child[p] = "killed" => grand[p] # "running"

\* C6 (amended): after the supervisor was terminated, a child that was
\* assigned to the job is neither suspended nor running, and no process it
\* started is running.
C6_KillEndsJobMembers ==
    \A p \in Procs :
        (exitPath[p] = "killed" /\ attach[p] = "assigned") =>
            /\ child[p] \in {"exited", "killed"}
            /\ grand[p] # "running"
C6_Witness ==
    \E p \in Procs :
        /\ exitPath[p] = "killed"
        /\ attach[p] = "assigned"
        /\ child[p] = "killed"
        /\ grand[p] = "killed"

\* C7: an invocation that returns from the end of main() exits with the code
\* its child exited with, after every step succeeded; an invocation with a
\* failed step exits through the handler with the error's code instead.
C7_ExitCodeFidelity ==
    \A p \in Procs :
        /\ (pc[p] = "done" /\ exitPath[p] = "return") =>
              /\ ret[p] = childCode[p]
              /\ ret[p] \in ExitCodes
              /\ child[p] = "exited"
              /\ failure[p] = NoError
              /\ err[p] = NoError
              /\ lockAcquired[p] /\ unlocked[p] /\ f[p] = "closed"
        /\ (pc[p] = "done" /\ failure[p] # NoError) =>
              /\ exitPath[p] = "catch"
              /\ ret[p] = err[p].errorCode
C7_Witness ==
    \E p \in Procs :
        pc[p] = "done" /\ exitPath[p] = "return" /\ ret[p] = MaxExitCode
            /\ ret[p] > 0

\* Every other invocation has exited or has not started, and no other
\* process holds the lock.
Quiet(q) ==
    /\ \A p \in Others(q) : pc[p] \in {"idle", "done"}
    /\ lockOwner \notin Foreign
\* The lock after a return from main().
C8_ReleasedState ==
    \A p \in Procs :
        (pc[p] = "done" /\ exitPath[p] = "return") =>
            (lockOwner # p /\ unlocked[p])
\* A lock attempt made while the others are quiet.
C8_FirstAttempt ==
    \A q \in Procs :
        (pc[q] = "lock" /\ Quiet(q) /\ <<pc[q], i[q]>> # <<pc'[q], i'[q]>>) =>
            /\ i'[q] # i[q] + 1
            /\ \/ pc'[q] = "check" /\ lockAcquired'[q] /\ lockOwner' = q
               \/ /\ pc'[q] = "done"
                  /\ err'[q].what = "LockFileEx"
                  /\ err'[q].errorCode # ERROR_LOCK_VIOLATION

\* C8: an invocation that returned from main() no longer owns the lock, and
\* an invocation that attempts the lock while every other invocation has
\* exited or has not started is not refused: it does not count a failed
\* attempt.
C8_LockFreeAfterSuccess == [](C8_ReleasedState) /\ [][C8_FirstAttempt]_vars
C8_Witness ==
    \E p \in Procs : \E q \in Others(p) :
        /\ pc[p] = "done" /\ exitPath[p] = "return"
        /\ pc[q] = "check" /\ lockAcquired[q] /\ lockOwner = q /\ i[q] = 0

\* The invocations that acquired the lock and neither unlocked it nor exited.
Holders == {p \in Procs : lockAcquired[p] /\ ~unlocked[p] /\ pc[p] # "done"}

\* C9: at most one process holds the lock at any instant: at most one
\* invocation has acquired it and neither unlocked it nor exited, that
\* invocation is the owner of the byte range, and no other locker owns the
\* range at the same time.
C9_AtMostOneHolder ==
    /\ Cardinality(Holders \cup {h \in Foreign : lockOwner = h}) <= 1
    /\ \A p \in Holders : lockOwner = p
C9_Witness ==
    \E p \in Procs : \E q \in Others(p) :
        /\ p \in Holders
        /\ pc[q] = "lock" /\ i[q] > 0

\* C10: an invocation that ends through the Win32Error handler exits with the
\* error code of the call that failed.
C10_ExitCodeIsOsError ==
    \A p \in Procs :
        (pc[p] = "done" /\ exitPath[p] = "catch") =>
            ret[p] = failure[p].errorCode

\* An invocation started with fewer than two positional arguments has touched
\* nothing, and when it has ended it ended with the usage message.
C11_UsageState ==
    \A p \in Procs :
        argc[p] < MinArgc =>
            /\ pc[p] \in {"idle", "done"}
            /\ pc[p] = "done" =>
                  (exitPath[p] = "usage" /\ ret[p] = UsageExitCode)
            /\ f[p] = "none"
            /\ i[p] = 0 /\ ~lockAcquired[p] /\ lockOwner # p
            /\ child[p] = "none" /\ job[p] = "none"
            /\ failure[p] = NoError /\ err[p] = NoError
\* The step that ends such an invocation changes nothing outside it.
C11_UsageStep ==
    \A p \in Procs :
        (argc[p] < MinArgc /\ pc'[p] # pc[p]) =>
            /\ fileExists' = fileExists
            /\ lockOwner' = lockOwner
            /\ child' = child

\* C11: an invocation with fewer than two positional arguments (argc < 3)
\* exits with code 1 and takes no other step: it does not open or create the
\* lock file, makes no lock attempt and creates no child.
C11_UsageExitDoesNothing == [](C11_UsageState) /\ [][C11_UsageStep]_vars
C11_Witness ==
    \E p \in Procs : \E q \in Others(p) :
        /\ argc[p] = MinArgc - 1
        /\ pc[p] = "done" /\ ret[p] = UsageExitCode
        /\ ~fileExists
        /\ argc[q] = 1 /\ pc[q] = "done"

\* The name ends in ".exe", in any letter case.
EndsInDotExe(str) ==
    /\ Len(str) >= Len(DotExe)
    /\ \A k \in 1..Len(DotExe) :
          LET c == str[Len(str) - Len(DotExe) + k]
          IN  c = DotExe[k] \/ (DotExe[k] = "e" /\ c = "E")
                            \/ (DotExe[k] = "x" /\ c = "X")

\* C12: enforceExeExtension is idempotent; a name that ends in ".exe" in any
\* letter case is returned unchanged, a name that does not gets ".exe"
\* appended, and then yields the same name as the name typed with ".exe".
C12_EnforceExeIdempotent ==
    /\ again # <<>> => again = executable
    /\ executable # <<>> =>
          IF EndsInDotExe(argv2)
          THEN executable = argv2
          ELSE executable = argv2 \o DotExe
    /\ (executable # <<>> /\ withExt # <<>> /\ ~EndsInDotExe(argv2)) =>
          withExt = executable
C12_Witness ==
    /\ Len(argv2) = MaxNameLen
    /\ argv2[Len(argv2)] = "E"
    /\ EndsInDotExe(argv2)
    /\ executable = argv2
    /\ again = argv2
    /\ withExt = argv2 \o DotExe

\* An invocation whose lock attempt failed for another reason than contention.
LockFatal(p) ==
    /\ failure[p].what = "LockFileEx"
    /\ failure[p].errorCode # ERROR_LOCK_VIOLATION
C13_FatalState ==
    \A p \in Procs :
        LockFatal(p) =>
            /\ pc[p] = "done" /\ exitPath[p] = "catch"
            /\ err[p] = failure[p] /\ ret[p] = failure[p].errorCode
            /\ ~lockAcquired[p] /\ lockOwner # p
            /\ child[p] = "none" /\ job[p] = "none"
\* A lock attempt of p: it backs off only on contention, and a failure is the
\* last thing the loop does.
C13_AttemptStep ==
    \A p \in Procs :
        (pc[p] = "lock" /\ <<pc[p], i[p]>> # <<pc'[p], i'[p]>>) =>
            /\ i'[p] = i[p] + 1 => (LockBusy(p) /\ failure'[p] = NoError)
            /\ failure'[p] # NoError =>
                  (LockFatal(p)' /\ pc'[p] = "done" /\ i'[p] = i[p])
            /\ pc'[p] = "done" => failure'[p] # NoError

\* C13: a lock attempt that fails for any reason other than contention ends
\* the invocation at that attempt: no back-off, no further attempt, no child,
\* and the failure is reported with its own code; the loop backs off and
\* tries again only when the range is held by another process.
C13_NonContentionIsFatal == [](C13_FatalState) /\ [][C13_AttemptStep]_vars
C13_Witness ==
    \E p \in Procs : \E q \in Others(p) :
        /\ LockFatal(p) /\ ret[p] = ERROR_ACCESS_DENIED
        /\ i[p] > 0
        /\ lockOwner = q /\ child[q] = "running"

\* The calls of main() that can fail, in the order main() makes them, and
\* what the success of each leaves behind.
CallOrder ==
    <<"CreateFileA", "LockFileEx", "PathSearchAndQualifyA", "CreateProcessA",
      "CreateJobObject", "SetInformationJobObject",
      "AssignProcessToJobObject", "ResumeThread", "WaitForSingleObject",
      "GetExitCodeProcess", "UnlockFileEx", "CloseHandle">>
Effect(p, call) ==
    CASE call = "CreateFileA" -> f[p] # "none"
      [] call = "LockFileEx" -> lockAcquired[p]
      [] call = "CreateProcessA" -> child[p] # "none"
      [] call = "CreateJobObject" -> job[p] # "none"
      [] call = "SetInformationJobObject" -> jobKill[p]
      [] call = "AssignProcessToJobObject" -> attach[p] # "none"
      [] call = "ResumeThread" -> child[p] \in {"running", "exited"}
      [] call = "GetExitCodeProcess" -> exitCode[p] # NoCode
      [] call = "UnlockFileEx" -> unlocked[p]
      [] call = "CloseHandle" -> f[p] = "closed"
      [] OTHER -> FALSE
\* A failed call ended the invocation, and neither it nor any later call of
\* main() took effect.
C14_AbortState ==
    \A p \in Procs :
        failure[p] # NoError =>
            /\ pc[p] = "done" /\ exitPath[p] = "catch"
            /\ \E k \in DOMAIN CallOrder :
                  /\ CallOrder[k] = failure[p].what
                  /\ \A n \in k..Len(CallOrder) : ~Effect(p, CallOrder[n])
            /\ failure[p].what = "AssignProcessToJobObject" =>
                  failure[p].errorCode # ERROR_ACCESS_DENIED
\* An invocation that has ended takes no step, and a refused attachment goes
\* on to ResumeThread.
C14_Step ==
    \A p \in Procs :
        /\ pc[p] = "done" =>
              /\ <<pc'[p], i'[p], f'[p], lockAcquired'[p], unlocked'[p]>> =
                    <<pc[p], i[p], f[p], lockAcquired[p], unlocked[p]>>
              /\ <<job'[p], jobKill'[p], attach'[p], exitCode'[p]>> =
                    <<job[p], jobKill[p], attach[p], exitCode[p]>>
              /\ <<failure'[p], err'[p], ret'[p]>> =
                    <<failure[p], err[p], ret[p]>>
        /\ (attach[p] = "none" /\ attach'[p] = "denied") =>
              (pc'[p] = "resume" /\ failure'[p] = NoError)
        /\ (attach[p] = "denied" /\ pc[p] = "resume" /\ pc'[p] # pc[p]
                /\ failure'[p] = NoError) =>
              (pc'[p] = "wait" /\ child'[p] = "running")

\* C14: a failed call ends the invocation without any later call of main()
\* taking effect, except AssignProcessToJobObject refused with
\* ERROR_ACCESS_DENIED, after which the child is resumed and waited for;
\* AssignProcessToJobObject failing with another code ends the invocation
\* like any other failure.
C14_OnlyAccessDeniedTolerated == [](C14_AbortState) /\ [][C14_Step]_vars
C14_Witness ==
    \E p \in Procs : \E q \in Others(p) :
        /\ attach[p] = "denied" /\ pc[p] = "wait" /\ child[p] = "running"
        /\ failure[q].what = "AssignProcessToJobObject"
        /\ child[q] = "suspended"

\* C15: the Win32Error that reaches main's handler names the call that
\* failed and carries the code that call failed with.
C15_ReportedIsProduced ==
    \A p \in Procs :
        /\ err[p].what = failure[p].what
        /\ err[p].errorCode = failure[p].errorCode

\* The invocation waiting for its child holds the lock.
C16_WaitState ==
    \A p \in Procs :
        pc[p] = "wait" =>
            (lockOwner = p /\ lockAcquired[p] /\ ~unlocked[p])
\* While the child of p runs and no call of p fails, p stays in the wait with
\* the lock, and a lock attempt of another invocation is refused and counted
\* (or fails for another reason).
C16_WaitStep ==
    \A p \in Procs :
        (pc[p] = "wait" /\ child[p] = "running") =>
            /\ failure'[p] = NoError =>
                  (pc'[p] = "wait" /\ lockOwner' = p /\ ret'[p] = NoCode)
            /\ \A q \in Others(p) :
                  (pc[q] = "lock" /\ <<pc[q], i[q]>> # <<pc'[q], i'[q]>>) =>
                      /\ ~lockAcquired'[q]
                      /\ \/ i'[q] = i[q] + 1 /\ failure'[q] = NoError
                         \/ LockFatal(q)'
                      /\ i'[q] = MaxAttempts => pc'[q] = "check"

\* C16: the wait for the child has no timeout: while the child runs and no
\* call fails, the supervisor stays in WaitForSingleObject, holds the lock and
\* does not exit, however many steps the others take; every lock attempt made
\* by another invocation meanwhile is refused, so one that uses up its 300
\* attempts leaves the loop without the lock.
C16_NoExecutionTimeout == [](C16_WaitState) /\ [][C16_WaitStep]_vars
C16_Witness ==
    \E p \in Procs : \E q \in Others(p) :
        /\ pc[p] = "wait" /\ child[p] = "running" /\ lockOwner = p
        /\ argc[q] = MinArgc
        /\ TimedOut(q) /\ i[q] = MaxAttempts /\ ret[q] = ERROR_LOCK_VIOLATION

\* The history holds the invocations in or just past the loop, once each.
C17_OrderState ==
    /\ \A k \in DOMAIN waitOrder : pc[waitOrder[k]] \in {"lock", "check"}
    /\ \A k, n \in DOMAIN waitOrder : waitOrder[k] = waitOrder[n] => k = n
    /\ \A q \in Procs :
          (pc[q] = "lock" /\ i[q] > 0) =>
              \E k \in DOMAIN waitOrder : waitOrder[k] = q
\* The outcome of a lock attempt depends on the owner of the range at that
\* instant alone, not on who has waited longer.
C17_AttemptStep ==
    \A q \in Procs :
        (pc[q] = "lock" /\ <<pc[q], i[q]>> # <<pc'[q], i'[q]>>) =>
            /\ i'[q] = i[q] + 1 => lockOwner \notin {NoProc, q}
            /\ (lockOwner = NoProc /\ failure'[q] = NoError) =>
                  (lockOwner' = q /\ lockAcquired'[q])

\* C17: waiters are served in no order: an attempt is refused only while
\* another process owns the range, and an attempt made while the range is
\* free takes it, whoever has waited longer; so an invocation that began to
\* wait later can take the lock before one that began earlier, and the
\* earlier one can use up its attempts although the range was free during
\* its wait.
C17_NoOrderAmongWaiters == [](C17_OrderState) /\ [][C17_AttemptStep]_vars
C17_Witness ==
    \E p \in Procs : \E q \in Others(p) :
        /\ waitOrder = <<q, p>>
        /\ pc[p] = "check" /\ lockAcquired[p] /\ lockOwner = p
        /\ pc[q] = "check" /\ ~lockAcquired[q] /\ i[q] = MaxAttempts

C19_NoChildLeftBehind ==
    \A p \in Procs :
        pc[p] = "done" => child[p] \notin {"suspended", "running"}

====
